---- MODULE Spec2Model ----
(***************************************************************************)
(* Model of phonopy/cui/load_helper.py: the helper functions of the        *)
(* phonopy loader.  Each function of the module is an operator computing   *)
(* the function's outcome (return value or exception, files read, lines    *)
(* printed, engine methods called, new state of the Phonopy object) from   *)
(* its arguments, the working directory and the outcomes of the external   *)
(* collaborators; each action applies one function.                        *)
(*                                                                         *)
(* Python values:                                                          *)
(*   None            <<>> for file names, matrices and objects, a record   *)
(*                   with set = FALSE for datasets, tensors and mappings   *)
(*   file name       the sequence of its dot-separated components, so      *)
(*                   that str.split(".") is the sequence itself            *)
(*   exception       [type, msg, cause]; type "" is normal completion      *)
(***************************************************************************)
EXTENDS Integers, Sequences, FiniteSets, TLC

VARIABLES
    cwd,      \* names of the conventional files present in the working directory
    phonon,   \* the Phonopy object handed to the force-data functions
    op,       \* the function applied last ("init" before any call)
    args,     \* its arguments
    env,      \* what the external collaborators did during the call
    pre,      \* the Phonopy object as it was when the call started
    ret       \* the call's outcome

vars == <<cwd, phonon, op, args, env, pre, ret>>

----------------------------------------------------------------------------
(* Bounds of the model. *)

MaxLogLevel == 1      \* log_level ranges over 0..MaxLogLevel
MaxNatom == 2         \* len(phonon.supercell) ranges over 1..MaxNatom

----------------------------------------------------------------------------
(* Common values. *)

NoFile == <<>>

NoExc == [type |-> "", msg |-> "", cause |-> ""]

Raised(r) == r.exc.type # ""

LogLevels == 0..MaxLogLevel

BORN == <<"BORN">>
FORCE_CONSTANTS == <<"FORCE_CONSTANTS">>
force_constants_hdf5 == <<"force_constants", "hdf5">>
FORCE_SETS == <<"FORCE_SETS">>

\* pathlib.Path(name).exists() in the working directory
exists(name, dir) == name \in dir

----------------------------------------------------------------------------
(* get_cell_settings and _read_crystal_structure *)

NoMatrix == <<>>

\* np.eye(n, dtype="intc")
eye(n) == [i \in 1..n |-> [j \in 1..n |-> IF i = j THEN 1 ELSE 0]]

\* a non-identity supercell matrix a caller may pass
Diag2 == [i \in 1..3 |-> [j \in 1..3 |-> IF i = j THEN 2 ELSE 0]]

SupercellMatrices == {NoMatrix, eye(3), Diag2}
PrimitiveMatrices == {"None", "auto", "F"}
UnitcellObjects == {<<>>, <<"unitcell atoms">>}
SupercellObjects == {<<>>, <<"supercell atoms">>}
UnitcellFilenames == {NoFile, <<"POSCAR-unitcell">>}
SupercellFilenames == {NoFile, <<"SPOSCAR">>}
Calculators == {"None", "vasp"}

NoCell == [from |-> "None", name |-> <<>>]

\* What the external reader does with a file: returns a cell, returns no
\* cell, raises FileNotFoundError, raises anything else.
ReaderOutcomes == {"cell", "None", "FileNotFoundError", "Exception"}

\* phonopy.interface.calculator.read_crystal_structure: (cell, (filename,))
read_crystal_structure(filename, interface_mode, reader) ==
    CASE reader = "cell" ->
           [exc |-> NoExc, cell |-> [from |-> "file", name |-> filename],
            info |-> <<filename>>]
      [] reader = "None" ->
           [exc |-> NoExc, cell |-> NoCell, info |-> <<filename>>]
      [] OTHER ->
           [exc |-> [type |-> reader, msg |-> "read_crystal_structure", cause |-> ""],
            cell |-> NoCell, info |-> <<>>]

\* PhonopyAtoms(atoms=obj)
PhonopyAtoms(obj) == [from |-> "atoms", name |-> obj]

\* phonopy.structure.cells.get_primitive_matrix
get_primitive_matrix(pmat) ==
    CASE pmat = "auto" -> "auto"
      [] pmat = "F" -> "fcc primitive matrix"
      [] OTHER -> pmat

GuidanceError(exc) ==
    [type |-> "RuntimeError",
     msg |-> "Reading crystal structure file failed in phonopy.load.",
     cause |-> exc.type]

_read_crystal_structure(filename, interface_mode, reader) ==
    LET r == read_crystal_structure(filename, interface_mode, reader)
    IN  IF ~Raised(r) THEN r
        ELSE IF r.exc.type = "FileNotFoundError" THEN r
        ELSE [r EXCEPT !.exc = GuidanceError(r.exc)]

CellNotSpecified ==
    [type |-> "RuntimeError", msg |-> "Cell has to be specified.", cause |-> ""]

CouldNotBeFound(filename) ==
    [type |-> "FileNotFoundError", msg |-> <<filename, "could not be found.">>,
     cause |-> ""]

CellRaise(exc, log, reads) ==
    [exc |-> exc, cell |-> NoCell, smat |-> NoMatrix, pmat |-> "None",
     log |-> log, reads |-> reads]

\* lines 75-80
cell_pmat(primitive_matrix) ==
    IF primitive_matrix = "None" \/ primitive_matrix = "auto"
    THEN "auto" ELSE primitive_matrix

\* lines 109-116, after a structure source was taken
cell_finish(a, r, smat, log, reads) ==
    IF r.info # <<>> /\ r.cell = NoCell
    THEN CellRaise(CouldNotBeFound(r.info[1]), log, reads)
    ELSE [exc |-> NoExc, cell |-> r.cell, smat |-> smat,
          pmat |-> get_primitive_matrix(cell_pmat(a.primitive_matrix)),
          log |-> log, reads |-> reads]

\* faulty variant: the supercell object tried before the unit-cell object
get_cell_settings_objects_supercell_first(a, reader) ==
    IF a.supercell # <<>>
    THEN cell_finish(a, [cell |-> PhonopyAtoms(a.supercell), info |-> <<>>],
                     eye(3), <<>>, <<>>)
    ELSE IF a.unitcell # <<>>
    THEN cell_finish(a, [cell |-> PhonopyAtoms(a.unitcell), info |-> <<>>],
                     a.supercell_matrix, <<>>, <<>>)
    ELSE CellRaise(CellNotSpecified, <<>>, <<>>)

\* lines 100-107: the in-memory structure sources
get_cell_settings_objects(a, reader) ==
    IF a.unitcell # <<>>
    THEN cell_finish(a, [cell |-> PhonopyAtoms(a.unitcell), info |-> <<>>],
                     a.supercell_matrix, <<>>, <<>>)
    ELSE IF a.supercell # <<>>
    THEN cell_finish(a, [cell |-> PhonopyAtoms(a.supercell), info |-> <<>>],
                     eye(3), <<>>, <<>>)
    ELSE CellRaise(CellNotSpecified, <<>>, <<>>)

get_cell_settings(a, reader) ==
    IF a.unitcell_filename # NoFile
    THEN LET r == _read_crystal_structure(a.unitcell_filename, a.calculator, reader)
             reads == <<[file |-> a.unitcell_filename,
                         via |-> "_read_crystal_structure"]>>
         IN  IF Raised(r) THEN CellRaise(r.exc, <<>>, reads)
             ELSE cell_finish(a, r, a.supercell_matrix,
                    IF a.log_level # 0
                    THEN <<[msg |-> "Unit cell structure was read from",
                            file |-> r.info[1]]>>
                    ELSE <<>>,
                    reads)
    ELSE IF a.supercell_filename # NoFile
    THEN LET r == read_crystal_structure(a.supercell_filename, a.calculator, reader)
             reads == <<[file |-> a.supercell_filename,
                         via |-> "read_crystal_structure"]>>
         IN  IF Raised(r) THEN CellRaise(r.exc, <<>>, reads)
             ELSE cell_finish(a, r, eye(3),
                    IF a.log_level # 0
                    THEN <<[msg |-> "Supercell structure was read from",
                            file |-> r.info[1]]>>
                    ELSE <<>>,
                    reads)
    ELSE get_cell_settings_objects(a, reader)

CellArgs ==
    [supercell_matrix : SupercellMatrices, primitive_matrix : PrimitiveMatrices,
     unitcell : UnitcellObjects, supercell : SupercellObjects,
     unitcell_filename : UnitcellFilenames,
     supercell_filename : SupercellFilenames,
     calculator : Calculators, log_level : LogLevels]

\* The reader's outcome is drawn only when the reader is called.
GetCellSettings ==
    /\ op = "init"
    /\ \E a \in CellArgs, reader \in ReaderOutcomes :
        \E r \in {get_cell_settings(a, reader)} :
            /\ r.reads = <<>> => reader = "cell"
            /\ op' = "get_cell_settings"
            /\ args' = a
            /\ env' = [reader |-> reader]
            /\ ret' = r
            /\ pre' = phonon
            /\ UNCHANGED <<cwd, phonon>>

ReadCrystalStructure ==
    /\ op = "init"
    /\ \E f \in (UnitcellFilenames \cup SupercellFilenames) \ {NoFile},
       c \in Calculators, reader \in ReaderOutcomes :
        /\ op' = "_read_crystal_structure"
        /\ args' = [filename |-> f, interface_mode |-> c]
        /\ env' = [reader |-> reader]
        /\ ret' = _read_crystal_structure(f, c, reader)
        /\ pre' = phonon
        /\ UNCHANGED <<cwd, phonon>>

----------------------------------------------------------------------------
(* get_nac_params *)

\* A NAC mapping: factor is "absent" when the mapping has no "factor" key,
\* "None" when the key holds None.
NoNac == [set |-> FALSE, data |-> <<>>, factor |-> "absent"]

NacFactors == {"None", "14.4"}
NacParams ==
    {NoNac} \cup [set : {TRUE}, data : {<<"nac_params">>},
                  factor : {"absent", "None", "factor of nac_params"}]
BornFilenames == {NoFile, <<"BORN_test">>}

\* What parse_BORN finds in the file: a mapping whose factor is absent, None
\* or given, or a failure.
BornOutcomes == {"absent", "None", "factor of file", "Exception"}

\* phonopy.file_IO.parse_BORN(primitive, filename=...)
parse_BORN(filename, born) ==
    IF born = "Exception"
    THEN [exc |-> [type |-> "Exception", msg |-> "parse_BORN", cause |-> ""],
          value |-> NoNac]
    ELSE [exc |-> NoExc,
          value |-> [set |-> TRUE, data |-> filename, factor |-> born]]

\* lines 141-145
nac_fill_factor(_nac_params, nac_factor) ==
    IF _nac_params.set /\ _nac_params.factor \in {"absent", "None"}
    THEN [_nac_params EXCEPT !.factor = nac_factor]
    ELSE _nac_params

NacReturn(_nac_params, a, log, reads) ==
    [exc |-> NoExc, value |-> nac_fill_factor(_nac_params, a.nac_factor),
     log |-> log, reads |-> reads]

NacParsed(filename, a, dir, born, msg) ==
    LET r == parse_BORN(filename, born)
    IN  IF Raised(r)
        THEN [exc |-> r.exc, value |-> NoNac, log |-> <<>>, reads |-> <<filename>>]
        ELSE NacReturn(r.value, a,
                       IF a.log_level # 0 THEN <<[msg |-> msg, file |-> filename]>>
                       ELSE <<>>,
                       <<filename>>)

\* faulty variant: the conventional BORN file tried first
get_nac_params_conventional_first(a, dir, born) ==
    IF a.is_nac /\ exists(BORN, dir)
    THEN NacParsed(BORN, a, dir, born, "NAC params were read from")
    ELSE IF a.born_filename # NoFile
    THEN NacParsed(a.born_filename, a, dir, born, "NAC parameters were read from")
    ELSE IF a.nac_params.set
    THEN NacReturn(a.nac_params, a, <<>>, <<>>)
    ELSE NacReturn(NoNac, a, <<>>, <<>>)

get_nac_params(a, dir, born) ==
    IF a.born_filename # NoFile
    THEN NacParsed(a.born_filename, a, dir, born, "NAC parameters were read from")
    ELSE IF a.nac_params.set
    THEN NacReturn(a.nac_params, a, <<>>, <<>>)
    ELSE IF a.is_nac /\ exists(BORN, dir)
    THEN NacParsed(BORN, a, dir, born, "NAC params were read from")
    ELSE NacReturn(NoNac, a, <<>>, <<>>)

NacArgs ==
    [nac_params : NacParams, born_filename : BornFilenames, is_nac : BOOLEAN,
     nac_factor : NacFactors, log_level : LogLevels]

\* The parser's outcome is drawn only when the parser is called.
GetNacParams ==
    /\ op = "init"
    /\ \E a \in NacArgs, born \in BornOutcomes :
        \E r \in {get_nac_params(a, cwd, born)} :
            /\ r.reads = <<>> => born = "absent"
            /\ op' = "get_nac_params"
            /\ args' = a
            /\ env' = [born |-> born]
            /\ ret' = r
            /\ pre' = phonon
            /\ UNCHANGED <<cwd, phonon>>

----------------------------------------------------------------------------
(* Force constants: read_force_constants_from_hdf5 and                     *)
(* _read_force_constants_file                                              *)

\* A force-constants tensor: rows[i][c] stands for the 3x3 block of the
\* i-th row atom and the c-th supercell atom; tag says where it came from.
NoFc == [set |-> FALSE, tag |-> <<>>, rows |-> <<>>]

shape0(fc) == Len(fc.rows)
shape1(fc) == Len(fc.rows[1])

\* (len(supercell), len(primitive)): the primitive cell divides the supercell
Geometries ==
    {g \in (1..MaxNatom) \X (1..MaxNatom) : g[2] <= g[1] /\ g[1] % g[2] = 0}

\* number of supercell atoms per primitive atom
ncopies(ph) == ph.natom \div ph.nprim

\* phonon.primitive.p2s_map: the supercell index of each primitive atom
p2s_map(ph) == [i \in 1..ph.nprim |-> (i - 1) * ncopies(ph) + 1]

all_atoms(ph) == [j \in 1..ph.natom |-> j]

\* the tensor whose rows are those of the atoms `atoms`
Tensor(tag, atoms, ph) ==
    [set |-> TRUE, tag |-> tag,
     rows |-> [i \in 1..Len(atoms) |-> [c \in 1..ph.natom |-> 10 * atoms[i] + c]]]

\* What a force-constants file holds: full or compact rows, or nothing
\* that parses.
FcLayouts == {"full", "compact", "Exception"}
\* The physical unit an hdf5 file names, if any.
FcUnits == {"None", "Ry/au^2"}

FcInFile(ph, filename, layout) ==
    IF layout = "full" THEN Tensor(filename, all_atoms(ph), ph)
    ELSE Tensor(filename, p2s_map(ph), ph)

\* phonopy.file_IO.parse_FORCE_CONSTANTS(filename=..., p2s_map=...)
parse_FORCE_CONSTANTS(ph, filename, e) ==
    IF e.layout = "Exception"
    THEN [exc |-> [type |-> "Exception", msg |-> "parse_FORCE_CONSTANTS", cause |-> ""],
          value |-> NoFc]
    ELSE [exc |-> NoExc, value |-> FcInFile(ph, filename, e.layout)]

\* phonopy.file_IO.read_force_constants_hdf5(..., return_physical_unit=True)
read_force_constants_hdf5(ph, filename, e) ==
    IF e.layout = "Exception"
    THEN [exc |-> [type |-> "Exception", msg |-> "read_force_constants_hdf5", cause |-> ""],
          value |-> NoFc, fc_unit |-> "None"]
    ELSE [exc |-> NoExc, value |-> FcInFile(ph, filename, e.layout),
          fc_unit |-> e.unit]

\* phonopy.interface.calculator.get_force_constant_conversion_factor
get_force_constant_conversion_factor(fc_unit, calculator) == 2

scale(fc, factor) ==
    [fc EXCEPT !.rows = [i \in 1..shape0(fc) |->
                           [c \in 1..shape1(fc) |-> fc.rows[i][c] * factor]]]

read_force_constants_from_hdf5(ph, filename, e) ==
    LET r == read_force_constants_hdf5(ph, filename, e)
    IN  IF Raised(r) THEN [exc |-> r.exc, value |-> NoFc]
        ELSE IF r.fc_unit = "None" THEN [exc |-> NoExc, value |-> r.value]
        ELSE [exc |-> NoExc,
              value |-> scale(r.value,
                         get_force_constant_conversion_factor(r.fc_unit, ph.calculator))]

\* phonopy.harmonic.force_constants.full_fc_to_compact_fc: the rows of the
\* primitive atoms
full_fc_to_compact_fc(ph, fc) ==
    [fc EXCEPT !.rows = [i \in 1..ph.nprim |-> fc.rows[p2s_map(ph)[i]]]]

\* phonopy.harmonic.force_constants.compact_fc_to_full_fc: the row of a
\* supercell atom is the row of its primitive atom, moved by the lattice
\* translation between the two
compact_fc_to_full_fc(ph, fc) ==
    LET n == shape1(fc)
        k == n \div shape0(fc)
        prim(j) == (j - 1) \div k + 1
        shift(j) == (j - 1) % k
        moved(c, t) == (((c - 1) \div k) * k) + ((((c - 1) % k) + k - t) % k) + 1
    IN  [fc EXCEPT !.rows = [j \in 1..n |->
                               [c \in 1..n |-> fc.rows[prim(j)][moved(c, shift(j))]]]]

FcRead(exc, value, conv, filename, parser) ==
    [exc |-> exc, value |-> value, conv |-> conv,
     reads |-> <<[file |-> filename, parser |-> parser]>>]

\* faulty variant: never expands a compact tensor
fc_normalize_compact_only(ph, _fc, is_compact_fc) ==
    IF is_compact_fc /\ shape0(_fc) = shape1(_fc)
    THEN [value |-> full_fc_to_compact_fc(ph, _fc), conv |-> "full_fc_to_compact_fc"]
    ELSE [value |-> _fc, conv |-> "none"]

\* faulty variant: the two shape tests exchanged
fc_normalize_swapped(ph, _fc, is_compact_fc) ==
    IF ~is_compact_fc /\ shape0(_fc) = shape1(_fc)
    THEN [value |-> compact_fc_to_full_fc(ph, _fc), conv |-> "compact_fc_to_full_fc"]
    ELSE IF is_compact_fc /\ shape0(_fc) # shape1(_fc)
    THEN [value |-> full_fc_to_compact_fc(ph, _fc), conv |-> "full_fc_to_compact_fc"]
    ELSE [value |-> _fc, conv |-> "none"]

\* lines 281-286
fc_normalize(ph, _fc, is_compact_fc) ==
    IF is_compact_fc /\ shape0(_fc) = shape1(_fc)
    THEN [value |-> full_fc_to_compact_fc(ph, _fc), conv |-> "full_fc_to_compact_fc"]
    ELSE IF ~is_compact_fc /\ shape0(_fc) # shape1(_fc)
    THEN [value |-> compact_fc_to_full_fc(ph, _fc), conv |-> "compact_fc_to_full_fc"]
    ELSE [value |-> _fc, conv |-> "none"]

_read_force_constants_file(ph, force_constants_filename, is_compact_fc, log_level, e) ==
    LET dot_split == force_constants_filename
        hdf5 == Len(dot_split) > 1 /\ dot_split[Len(dot_split)] = "hdf5"
        parser == IF hdf5 THEN "read_force_constants_from_hdf5"
                  ELSE "parse_FORCE_CONSTANTS"
        r == IF hdf5 THEN read_force_constants_from_hdf5(ph, force_constants_filename, e)
             ELSE parse_FORCE_CONSTANTS(ph, force_constants_filename, e)
    IN  IF Raised(r)
        THEN FcRead(r.exc, NoFc, "none", force_constants_filename, parser)
        ELSE LET n == fc_normalize(ph, r.value, is_compact_fc)
             IN  FcRead(NoExc, n.value, n.conv, force_constants_filename, parser)

ReadForceConstantsFilenames ==
    {FORCE_CONSTANTS, force_constants_hdf5, <<"fc_user">>, <<"fc_user", "hdf5">>}

----------------------------------------------------------------------------
(* The Phonopy object and set_dataset_and_force_constants *)

\* A displacement-force dataset: keys are the ones the code looks for,
\* forces says whether every displacement carries its forces.
NoDataset == [set |-> FALSE, tag |-> <<>>, keys |-> {}, forces |-> FALSE]

Dataset(tag, keys, has_forces) ==
    [set |-> TRUE, tag |-> tag, keys |-> keys, forces |-> has_forces]

\* Phonopy(cell, supercell_matrix, primitive_matrix): nothing loaded yet
Phonopy(g) ==
    [natom |-> g[1], nprim |-> g[2], calculator |-> "None",
     dataset |-> NoDataset, mlp_dataset |-> NoDataset, force_constants |-> NoFc]

\* phonon.forces is None
forces_is_None(ph) == ~(ph.dataset.set /\ ph.dataset.forces)

\* What parse_FORCE_SETS finds: displaced-atom records, displacement
\* vectors, or nothing that parses.
ForceSetsOutcomes == {"first_atoms", "displacements", "Exception"}

\* phonopy.file_IO.parse_FORCE_SETS(natom=..., filename=...)
parse_FORCE_SETS(natom, filename, e) ==
    IF e.force_sets = "Exception"
    THEN [exc |-> [type |-> "Exception", msg |-> "parse_FORCE_SETS", cause |-> ""],
          value |-> NoDataset]
    ELSE [exc |-> NoExc, value |-> Dataset(filename, {e.force_sets}, TRUE)]

\* What phonon.produce_force_constants does.
EngineOutcomes == {"ok", "ForcesetsNotFoundError", "Exception"}

\* lines 191-197
set_session_data(ph, a) ==
    LET ph1 == IF a.dataset.set
               THEN IF a.use_pypolymlp
                    THEN [ph EXCEPT !.mlp_dataset = a.dataset]
                    ELSE [ph EXCEPT !.dataset = a.dataset]
               ELSE ph
    IN  IF a.fc.set THEN [ph1 EXCEPT !.force_constants = a.fc] ELSE ph1

NoSource ==
    [exc |-> NoExc, _fc |-> NoFc, _dataset |-> NoDataset, filename |-> NoFile,
     reads |-> <<>>]

FromForceConstantsFile(ph, filename, a, e) ==
    LET r == _read_force_constants_file(ph, filename, a.is_compact_fc, a.log_level, e)
    IN  [exc |-> r.exc, _fc |-> r.value, _dataset |-> NoDataset,
         filename |-> filename, reads |-> r.reads]

FromForceSetsFile(ph, filename, e) ==
    LET r == parse_FORCE_SETS(ph.natom, filename, e)
    IN  [exc |-> r.exc, _fc |-> NoFc, _dataset |-> r.value, filename |-> filename,
         reads |-> <<[file |-> filename, parser |-> "parse_FORCE_SETS"]>>]

\* lines 214-232
conventional_force_source(ph, a, dir, e) ==
    IF exists(FORCE_CONSTANTS, dir)
    THEN FromForceConstantsFile(ph, FORCE_CONSTANTS, a, e)
    ELSE IF exists(force_constants_hdf5, dir)
    THEN FromForceConstantsFile(ph, force_constants_hdf5, a, e)
    ELSE IF exists(FORCE_SETS, dir)
    THEN FromForceSetsFile(ph, FORCE_SETS, e)
    ELSE NoSource

\* faulty variant: the explicit force-sets file tried before the force-constants file
resolve_force_source_sets_first(ph, a, dir, e) ==
    IF a.force_sets_filename # NoFile
    THEN FromForceSetsFile(ph, a.force_sets_filename, e)
    ELSE IF a.force_constants_filename # NoFile
    THEN FromForceConstantsFile(ph, a.force_constants_filename, a, e)
    ELSE IF forces_is_None(ph) /\ ~ph.force_constants.set
    THEN conventional_force_source(ph, a, dir, e)
    ELSE NoSource

\* lines 199-232
resolve_force_source(ph, a, dir, e) ==
    IF a.force_constants_filename # NoFile
    THEN FromForceConstantsFile(ph, a.force_constants_filename, a, e)
    ELSE IF a.force_sets_filename # NoFile
    THEN FromForceSetsFile(ph, a.force_sets_filename, e)
    ELSE IF forces_is_None(ph) /\ ~ph.force_constants.set
    THEN conventional_force_source(ph, a, dir, e)
    ELSE NoSource

Line(msg, filename) == [msg |-> msg, file |-> filename]

\* lines 234-237
install_fc(ph, s) ==
    IF s._fc.set THEN [ph EXCEPT !.force_constants = s._fc] ELSE ph

install_fc_log(s, a) ==
    IF s._fc.set /\ a.log_level # 0
    THEN <<Line("Force constants were read from", s.filename)>>
    ELSE <<>>

\* lines 242-254
install_dataset(ph, s, a) ==
    LET is_overwritten ==
            IF ~ph.dataset.set THEN FALSE
            ELSE \/ "first_atoms" \in ph.dataset.keys
                 \/ "displacements" \in ph.dataset.keys
    IN  [phonon |-> [ph EXCEPT !.dataset = s._dataset],
         log |-> install_fc_log(s, a)
                 \o (IF a.log_level # 0
                     THEN <<Line("Force sets were read from", s.filename)>>
                     ELSE <<>>)
                 \o (IF a.log_level # 0 /\ is_overwritten
                     THEN <<Line("Displacements were overwritten by", s.filename)>>
                     ELSE <<>>)]

\* faulty variant: a dataset already on the object is kept
install_force_data_keep_existing(ph, s, a) ==
    IF ~install_fc(ph, s).force_constants.set /\ s._dataset.set /\ ~ph.dataset.set
    THEN install_dataset(install_fc(ph, s), s, a)
    ELSE [phonon |-> install_fc(ph, s), log |-> install_fc_log(s, a)]

\* faulty variant: the dataset is installed whether or not force constants are set
install_force_data_despite_fc(ph, s, a) ==
    IF s._dataset.set
    THEN install_dataset(install_fc(ph, s), s, a)
    ELSE [phonon |-> install_fc(ph, s), log |-> install_fc_log(s, a)]

\* lines 234-254
install_force_data(ph, s, a) ==
    IF ~install_fc(ph, s).force_constants.set /\ s._dataset.set
    THEN install_dataset(install_fc(ph, s), s, a)
    ELSE [phonon |-> install_fc(ph, s), log |-> install_fc_log(s, a)]

Produced(ph, full) ==
    Tensor(<<"produce_force_constants">>,
           IF full THEN all_atoms(ph) ELSE p2s_map(ph), ph)

Symmetrized(fc) == [fc EXCEPT !.tag = Append(fc.tag, "symmetrize_force_constants")]

ProduceCall(is_compact_fc) ==
    [method |-> "produce_force_constants", flag |-> ~is_compact_fc]

SymmetrizeCall(log_level) ==
    [method |-> "symmetrize_force_constants", flag |-> log_level > 0]

\* lines 298-306: the body of the try statement
_produce_force_constants_try(ph, symmetrize_fc, is_compact_fc, log_level, engine) ==
    IF engine # "ok"
    THEN [exc |-> [type |-> engine, msg |-> "produce_force_constants", cause |-> ""],
          phonon |-> ph, calls |-> <<ProduceCall(is_compact_fc)>>, log |-> <<>>]
    ELSE IF symmetrize_fc
    THEN [exc |-> NoExc,
          phonon |-> [ph EXCEPT !.force_constants =
                                   Symmetrized(Produced(ph, ~is_compact_fc))],
          calls |-> <<ProduceCall(is_compact_fc), SymmetrizeCall(log_level)>>,
          log |-> IF log_level # 0
                  THEN <<Line("Force constants were symmetrized.", NoFile)>>
                  ELSE <<>>]
    ELSE [exc |-> NoExc,
          phonon |-> [ph EXCEPT !.force_constants = Produced(ph, ~is_compact_fc)],
          calls |-> <<ProduceCall(is_compact_fc)>>, log |-> <<>>]

\* faulty variant: ForcesetsNotFoundError is not caught
_produce_force_constants_uncaught(ph, symmetrize_fc, is_compact_fc, log_level, engine) ==
    _produce_force_constants_try(ph, symmetrize_fc, is_compact_fc, log_level, engine)

\* lines 289-309
_produce_force_constants(ph, symmetrize_fc, is_compact_fc, log_level, engine) ==
    IF engine = "ForcesetsNotFoundError"
    THEN [exc |-> NoExc, phonon |-> ph, calls |-> <<ProduceCall(is_compact_fc)>>,
          log |-> IF log_level # 0
                  THEN <<Line("Force constants not produced due to force set not found.",
                              NoFile)>>
                  ELSE <<>>]
    ELSE _produce_force_constants_try(ph, symmetrize_fc, is_compact_fc, log_level,
                                      engine)

\* faulty variant: force constants are produced although the object has some
produce_if_asked_always(ph, a, engine) ==
    IF a.produce_fc
    THEN _produce_force_constants(ph, a.symmetrize_fc, a.is_compact_fc,
                                  a.log_level, engine)
    ELSE [exc |-> NoExc, phonon |-> ph, calls |-> <<>>, log |-> <<>>]

\* lines 256-264
produce_if_asked(ph, a, engine) ==
    IF ~ph.force_constants.set /\ a.produce_fc
    THEN _produce_force_constants(ph, a.symmetrize_fc, a.is_compact_fc,
                                  a.log_level, engine)
    ELSE [exc |-> NoExc, phonon |-> ph, calls |-> <<>>, log |-> <<>>]

set_dataset_and_force_constants(ph, a, dir, e) ==
    LET ph1 == set_session_data(ph, a)
        s == resolve_force_source(ph1, a, dir, e)
    IN  IF Raised(s)
        THEN [exc |-> s.exc, phonon |-> ph1, reads |-> s.reads, calls |-> <<>>,
              log |-> <<>>]
        ELSE LET i == install_force_data(ph1, s, a)
                 p == produce_if_asked(i.phonon, a, e.engine)
             IN  [exc |-> p.exc, phonon |-> p.phonon, reads |-> s.reads,
                  calls |-> p.calls, log |-> i.log \o p.log]

----------------------------------------------------------------------------
(* Inputs of the force-data functions *)

InMemoryDatasets ==
    {NoDataset,
     Dataset(<<"phonon.dataset">>, {}, FALSE),
     Dataset(<<"phonon.dataset">>, {"first_atoms"}, FALSE),
     Dataset(<<"phonon.dataset">>, {"first_atoms"}, TRUE),
     Dataset(<<"phonon.dataset">>, {"displacements"}, FALSE)}

SessionDatasets ==
    {NoDataset,
     Dataset(<<"phonopy_yaml">>, {"first_atoms"}, FALSE),
     Dataset(<<"phonopy_yaml">>, {"first_atoms"}, TRUE)}

\* the force-data resolver is exercised on the largest supercell of a
\* one-atom primitive cell
ForceGeometries == {g \in Geometries : g[1] = MaxNatom /\ g[2] = 1}

InMemoryFc(ph) == {NoFc, Tensor(<<"phonon.force_constants">>, p2s_map(ph), ph)}

PhononObjects ==
    UNION {{[Phonopy(g) EXCEPT !.dataset = d, !.force_constants = f] :
               d \in InMemoryDatasets, f \in InMemoryFc(Phonopy(g))} :
           g \in ForceGeometries}

SessionFc(ph) == {NoFc, Tensor(<<"phonopy_yaml">>, p2s_map(ph), ph)}

ForceArgs(ph) ==
    [dataset : SessionDatasets, fc : SessionFc(ph),
     force_constants_filename : {NoFile, <<"fc_user">>},
     force_sets_filename : {NoFile, <<"FORCE_SETS_user">>},
     produce_fc : BOOLEAN, symmetrize_fc : BOOLEAN, is_compact_fc : BOOLEAN,
     use_pypolymlp : BOOLEAN, log_level : LogLevels]

ForceEnvs ==
    [layout : FcLayouts, unit : FcUnits, force_sets : ForceSetsOutcomes,
     engine : EngineOutcomes]

Parsers(reads) == {reads[i].parser : i \in 1..Len(reads)}

\* An outcome of a collaborator is drawn only when the collaborator is called.
EnvUsed(e, reads, calls) ==
    /\ Parsers(reads) \cap {"parse_FORCE_CONSTANTS", "read_force_constants_from_hdf5"} = {}
          => e.layout = "full"
    /\ ("read_force_constants_from_hdf5" \notin Parsers(reads) \/ e.layout = "Exception")
          => e.unit = "None"
    /\ "parse_FORCE_SETS" \notin Parsers(reads) => e.force_sets = "first_atoms"
    /\ calls = <<>> => e.engine = "ok"

SetDatasetAndForceConstants ==
    /\ op = "init"
    /\ \E a \in ForceArgs(phonon), e \in ForceEnvs :
        \E r \in {set_dataset_and_force_constants(phonon, a, cwd, e)} :
            /\ EnvUsed(e, r.reads, r.calls)
            /\ op' = "set_dataset_and_force_constants"
            /\ args' = a
            /\ env' = e
            /\ pre' = phonon
            /\ phonon' = r.phonon
            /\ ret' = [exc |-> r.exc, reads |-> r.reads, calls |-> r.calls,
                       log |-> r.log]
            /\ UNCHANGED cwd

ReadForceConstantsFile ==
    /\ op = "init"
    /\ \E f \in ReadForceConstantsFilenames, c \in BOOLEAN, l \in LogLevels,
          e \in ForceEnvs :
        \E r \in {_read_force_constants_file(phonon, f, c, l, e)} :
            /\ EnvUsed(e, r.reads, <<>>)
            /\ op' = "_read_force_constants_file"
            /\ args' = [force_constants_filename |-> f, is_compact_fc |-> c,
                        log_level |-> l]
            /\ env' = e
            /\ pre' = phonon
            /\ ret' = r
            /\ UNCHANGED <<cwd, phonon>>

----------------------------------------------------------------------------
(* Specifications *)

ForceFiles == {FORCE_CONSTANTS, force_constants_hdf5, FORCE_SETS}

\* Before the call: every behaviour applies one function once, to the
\* Phonopy object and the working directory the host prepared.
NoCall ==
    /\ op = "init"
    /\ args = <<>>
    /\ env = <<>>
    /\ ret = <<>>
    /\ pre = phonon

\* the force-data resolver, on every object in every working directory
Init == cwd \in SUBSET ForceFiles /\ phonon \in PhononObjects /\ NoCall
Next == SetDatasetAndForceConstants
Spec == Init /\ [][Next]_vars

\* the structure resolver
InitCell == cwd = {} /\ phonon = Phonopy(<<1, 1>>) /\ NoCall
NextCell == GetCellSettings \/ ReadCrystalStructure
SpecCell == InitCell /\ [][NextCell]_vars

\* the NAC resolver, with and without a BORN file
InitNac == cwd \in SUBSET {BORN} /\ phonon = Phonopy(<<1, 1>>) /\ NoCall
NextNac == GetNacParams
SpecNac == InitNac /\ [][NextNac]_vars

\* the force-constants file reader, on every geometry
InitFc == cwd = {} /\ phonon \in {Phonopy(g) : g \in Geometries} /\ NoCall
NextFc == ReadForceConstantsFile
SpecFc == InitFc /\ [][NextFc]_vars

----------------------------------------------------------------------------
(* Properties of get_cell_settings (SpecCell) *)

\* the first structure source that is set, in the documented order
FirstCellSource(a) ==
    CASE a.unitcell_filename # NoFile -> "unitcell_filename"
      [] a.supercell_filename # NoFile -> "supercell_filename"
      [] a.unitcell # <<>> -> "unitcell"
      [] a.supercell # <<>> -> "supercell"
      [] OTHER -> "none"

\* the cell and the files read when source w is the one taken
CellOf(w, a) ==
    CASE w = "unitcell_filename" -> [from |-> "file", name |-> a.unitcell_filename]
      [] w = "supercell_filename" -> [from |-> "file", name |-> a.supercell_filename]
      [] w = "unitcell" -> [from |-> "atoms", name |-> a.unitcell]
      [] OTHER -> [from |-> "atoms", name |-> a.supercell]

FilesRead(reads) == [i \in 1..Len(reads) |-> reads[i].file]

\* C1: get_cell_settings takes the first structure source that is set, in
\* the order unitcell_filename, supercell_filename, unitcell, supercell: only
\* the winner's file is read, the returned cell is the winner's, and the
\* returned supercell matrix is np.eye(3) when the winner is a supercell
\* source and the caller's supercell_matrix otherwise; with no source set
\* the call raises "Cell has to be specified." and returns nothing.
C1_CellSourcePrecedence ==
    op = "get_cell_settings" =>
        LET w == FirstCellSource(args)
        IN  /\ w = "none" <=> ret.exc = CellNotSpecified
            /\ Raised(ret) =>
                  ret.cell = NoCell /\ ret.smat = NoMatrix /\ ret.pmat = "None"
            /\ FilesRead(ret.reads) =
                  CASE w = "unitcell_filename" -> <<args.unitcell_filename>>
                    [] w = "supercell_filename" -> <<args.supercell_filename>>
                    [] OTHER -> <<>>
            /\ ~Raised(ret) =>
                  /\ ret.cell = CellOf(w, args)
                  /\ ret.smat = IF w \in {"supercell_filename", "supercell"}
                                THEN eye(3) ELSE args.supercell_matrix

\* a supercell file wins over both objects and forces the identity although
\* the caller passed another supercell matrix
C1_Witness ==
    /\ op = "get_cell_settings"
    /\ args.unitcell_filename = NoFile
    /\ args.supercell_filename # NoFile
    /\ args.unitcell # <<>>
    /\ args.supercell # <<>>
    /\ args.supercell_matrix = Diag2
    /\ ~Raised(ret)
    /\ ret.cell.name = args.supercell_filename
    /\ ret.smat = eye(3)

\* C5: whenever get_cell_settings reads a structure file, in either role, a
\* FileNotFoundError of the reader reaches the caller unchanged and any
\* other exception of the reader reaches the caller as the guidance
\* RuntimeError with the reader's exception as its cause.
C5_ReaderFailuresWrapped ==
    (op = "get_cell_settings" /\ ret.reads # <<>>) =>
        /\ env.reader = "FileNotFoundError" =>
              ret.exc = [type |-> "FileNotFoundError",
                         msg |-> "read_crystal_structure", cause |-> ""]
        /\ env.reader = "Exception" =>
              ret.exc = GuidanceError([type |-> "Exception"])

----------------------------------------------------------------------------
(* Properties of get_nac_params (SpecNac) *)

\* the mapping with its factor back-filled as lines 141-143 do
WithFactor(m, nac_factor) ==
    [m EXCEPT !.factor = IF m.factor \in {"absent", "None"} THEN nac_factor
                         ELSE m.factor]

\* C3: get_nac_params takes, in this order, the file born_filename (BORN is
\* then not read and nac_params is ignored), else nac_params as given, else
\* the file BORN when is_nac is true and BORN exists, else None; BORN is
\* never read when is_nac is false.
C3_NacResolutionOrder ==
    op = "get_nac_params" =>
        /\ args.born_filename # NoFile =>
              /\ ret.reads = <<args.born_filename>>
              /\ ~Raised(ret) => ret.value.data = args.born_filename
        /\ (args.born_filename = NoFile /\ args.nac_params.set) =>
              /\ ret.reads = <<>>
              /\ ret.value = WithFactor(args.nac_params, args.nac_factor)
        /\ (args.born_filename = NoFile /\ ~args.nac_params.set
              /\ args.is_nac /\ BORN \in cwd) =>
              /\ ret.reads = <<BORN>>
              /\ ~Raised(ret) => ret.value.data = BORN
        /\ (args.born_filename = NoFile /\ ~args.nac_params.set
              /\ ~(args.is_nac /\ BORN \in cwd)) =>
              /\ ret.reads = <<>>
              /\ ret.value = NoNac
              /\ ~Raised(ret)
        /\ ~args.is_nac => \A i \in 1..Len(ret.reads) : ret.reads[i] # BORN

\* born_filename is read although BORN exists and nac_params is given
C3_Witness ==
    /\ op = "get_nac_params"
    /\ args.born_filename = <<"BORN_test">>
    /\ args.nac_params.set
    /\ args.is_nac
    /\ BORN \in cwd
    /\ ~Raised(ret)
    /\ ret.reads = <<args.born_filename>>
    /\ ret.value.data = <<"BORN_test">>

----------------------------------------------------------------------------
(* Properties of _read_force_constants_file (SpecFc) *)

\* the tensor as loaded from the file, before any layout conversion
Loaded ==
    IF env.unit # "None"
    THEN scale(FcInFile(pre, args.force_constants_filename, env.layout),
               get_force_constant_conversion_factor(env.unit, pre.calculator))
    ELSE FcInFile(pre, args.force_constants_filename, env.layout)

\* C7: the tensor _read_force_constants_file returns has the layout asked
\* for by is_compact_fc (primitive-atom rows for compact, supercell-atom rows
\* for full) whatever the layout in the file, and a file already in the
\* requested layout is returned with its values unchanged.
C7_ReturnedLayoutAsRequested ==
    (op = "_read_force_constants_file" /\ ~Raised(ret)) =>
        /\ shape0(ret.value) = IF args.is_compact_fc THEN pre.nprim ELSE pre.natom
        /\ shape1(ret.value) = pre.natom
        /\ (args.is_compact_fc <=> env.layout = "compact") => ret.value = Loaded

\* a full file read for a compact request, on a supercell larger than the
\* primitive cell
C7_Witness ==
    /\ op = "_read_force_constants_file"
    /\ ~Raised(ret)
    /\ env.layout = "full"
    /\ args.is_compact_fc
    /\ pre.nprim < pre.natom
    /\ shape0(ret.value) = pre.nprim
    /\ ret.conv = "full_fc_to_compact_fc"

\* C8 as stated: a loaded tensor with equal first two dimensions is expanded
\* to full when the caller wants full, one with unequal first two
\* dimensions is reduced to compact when the caller wants compact, and no
\* conversion is applied otherwise.
C8_AsStated ==
    (op = "_read_force_constants_file" /\ ~Raised(ret)) =>
        ret.conv =
            CASE shape0(Loaded) = shape1(Loaded) /\ ~args.is_compact_fc ->
                   "compact_fc_to_full_fc"
              [] shape0(Loaded) # shape1(Loaded) /\ args.is_compact_fc ->
                   "full_fc_to_compact_fc"
              [] OTHER -> "none"

\* C8, amended: a loaded tensor with equal first two dimensions is reduced
\* to compact when the caller wants compact, one with unequal first two
\* dimensions is expanded to full when the caller wants full, and no
\* conversion is applied otherwise.
C8_ShapeNormalization ==
    (op = "_read_force_constants_file" /\ ~Raised(ret)) =>
        /\ ret.conv =
              CASE shape0(Loaded) = shape1(Loaded) /\ args.is_compact_fc ->
                     "full_fc_to_compact_fc"
                [] shape0(Loaded) # shape1(Loaded) /\ ~args.is_compact_fc ->
                     "compact_fc_to_full_fc"
                [] OTHER -> "none"
        /\ ret.value =
              CASE ret.conv = "full_fc_to_compact_fc" -> full_fc_to_compact_fc(pre, Loaded)
                [] ret.conv = "compact_fc_to_full_fc" -> compact_fc_to_full_fc(pre, Loaded)
                [] OTHER -> Loaded

\* a compact file expanded for a full request
C8_Witness ==
    /\ op = "_read_force_constants_file"
    /\ ~Raised(ret)
    /\ env.layout = "compact"
    /\ ~args.is_compact_fc
    /\ shape0(Loaded) # shape1(Loaded)
    /\ ret.conv = "compact_fc_to_full_fc"
    /\ shape0(ret.value) = pre.natom

----------------------------------------------------------------------------
(* Properties of set_dataset_and_force_constants (Spec) *)

\* phonon.dataset and phonon.force_constants once the session data of the
\* call are attached
DatasetAfterSession ==
    IF args.dataset.set /\ ~args.use_pypolymlp THEN args.dataset ELSE pre.dataset

FcAfterSession == IF args.fc.set THEN args.fc ELSE pre.force_constants

NoExplicitFile ==
    args.force_constants_filename = NoFile /\ args.force_sets_filename = NoFile

\* the source the documented order selects
FirstForceSource ==
    CASE args.force_constants_filename # NoFile -> args.force_constants_filename
      [] args.force_sets_filename # NoFile -> args.force_sets_filename
      [] ~(DatasetAfterSession.set /\ DatasetAfterSession.forces)
           /\ ~FcAfterSession.set ->
           CASE FORCE_CONSTANTS \in cwd -> FORCE_CONSTANTS
             [] force_constants_hdf5 \in cwd -> force_constants_hdf5
             [] FORCE_SETS \in cwd -> FORCE_SETS
             [] OTHER -> NoFile
      [] OTHER -> NoFile

\* a force-constants file was read and parsed
FcFromFile ==
    /\ ret.reads # <<>>
    /\ ret.reads[1].parser # "parse_FORCE_SETS"
    /\ env.layout # "Exception"

Called(method) == {i \in 1..Len(ret.calls) : ret.calls[i].method = method}

InLog(line) == \E i \in 1..Len(ret.log) : ret.log[i] = line

\* C2: the force-data source is the explicit force-constants file, else the
\* explicit force-sets file, else, when the object has neither forces nor
\* force constants once the session data are attached, the first existing of
\* FORCE_CONSTANTS, force_constants.hdf5, FORCE_SETS, else none; the winner
\* is the only file read, by the parser of its kind.
C2_ForceSourceOrder ==
    op = "set_dataset_and_force_constants" =>
        /\ FilesRead(ret.reads) =
              IF FirstForceSource = NoFile THEN <<>> ELSE <<FirstForceSource>>
        /\ \A i \in 1..Len(ret.reads) :
              ret.reads[i].parser = "parse_FORCE_SETS"
                 <=> ret.reads[i].file \in {args.force_sets_filename, FORCE_SETS}

\* both explicit files given and every conventional file present: only the
\* force-constants file is read
C2_Witness ==
    /\ op = "set_dataset_and_force_constants"
    /\ args.force_constants_filename # NoFile
    /\ args.force_sets_filename # NoFile
    /\ cwd = ForceFiles
    /\ ret.reads = <<[file |-> args.force_constants_filename,
                      parser |-> "parse_FORCE_CONSTANTS"]>>

\* C4: when produce_fc is true and produce_force_constants raises
\* ForcesetsNotFoundError, the call does not raise, symmetrize_force_constants
\* is not called and phonon.force_constants is None at return.
C4_ForcesetsNotFoundIsNotFatal ==
    (op = "set_dataset_and_force_constants" /\ args.produce_fc
        /\ ret.calls # <<>> /\ env.engine = "ForcesetsNotFoundError") =>
        /\ ~Raised(ret)
        /\ ret.calls = <<ProduceCall(args.is_compact_fc)>>
        /\ ~phonon.force_constants.set

C4_Witness ==
    /\ op = "set_dataset_and_force_constants"
    /\ args.produce_fc
    /\ args.symmetrize_fc
    /\ args.log_level > 0
    /\ env.engine = "ForcesetsNotFoundError"
    /\ ret.calls = <<ProduceCall(args.is_compact_fc)>>
    /\ ~Raised(ret)
    /\ InLog(Line("Force constants not produced due to force set not found.", NoFile))

\* C6 as stated: for every object whose dataset before the call contains
\* first_atoms, with no explicit file name and FORCE_SETS present, the call
\* (when it returns normally) has replaced phonon.dataset by the dataset
\* parsed from FORCE_SETS and, when log_level > 0, printed the
\* "Displacements were overwritten" line.
C6_AsStated ==
    (op = "set_dataset_and_force_constants"
        /\ pre.dataset.set /\ "first_atoms" \in pre.dataset.keys
        /\ NoExplicitFile /\ FORCE_SETS \in cwd
        /\ ~Raised(ret)) =>
        /\ phonon.dataset = Dataset(FORCE_SETS, {env.force_sets}, TRUE)
        /\ args.log_level > 0 =>
              InLog(Line("Displacements were overwritten by", FORCE_SETS))

\* C6, amended: for every object whose dataset, once the session dataset is
\* attached, contains first_atoms and carries no forces, and that has no
\* force constants, with no explicit file name, FORCE_SETS present, neither
\* FORCE_CONSTANTS nor force_constants.hdf5 present and FORCE_SETS parsed
\* without error, the call replaces phonon.dataset by the dataset parsed
\* from FORCE_SETS and, when log_level > 0, prints the "Displacements were
\* overwritten" line.
C6_DatasetOverwritten ==
    (op = "set_dataset_and_force_constants"
        /\ DatasetAfterSession.set /\ "first_atoms" \in DatasetAfterSession.keys
        /\ ~DatasetAfterSession.forces
        /\ ~FcAfterSession.set
        /\ NoExplicitFile
        /\ cwd = {FORCE_SETS}
        /\ env.force_sets # "Exception") =>
        /\ phonon.dataset = Dataset(FORCE_SETS, {env.force_sets}, TRUE)
        /\ args.log_level > 0 =>
              InLog(Line("Displacements were overwritten by", FORCE_SETS))

C6_Witness ==
    /\ op = "set_dataset_and_force_constants"
    /\ pre.dataset.set /\ "first_atoms" \in pre.dataset.keys
    /\ ~args.dataset.set
    /\ NoExplicitFile
    /\ args.log_level > 0
    /\ phonon.dataset.tag = FORCE_SETS
    /\ InLog(Line("Displacements were overwritten by", FORCE_SETS))

\* C9: produce_force_constants is called at most once, and only when
\* produce_fc is true and the object has no force constants after the
\* session data and any file source are installed; force constants obtained
\* from the session or from a force-constants file are installed and
\* neither engine method is called; symmetrize_force_constants is called
\* only after produce_force_constants returned normally and only when
\* symmetrize_fc is true.
C9_ProduceOnlyWhenNoForceConstants ==
    op = "set_dataset_and_force_constants" =>
        /\ Cardinality(Called("produce_force_constants")) <= 1
        /\ Called("produce_force_constants") # {} =>
              args.produce_fc /\ ~FcAfterSession.set /\ ~FcFromFile
        /\ FcFromFile =>
              /\ ret.calls = <<>>
              /\ phonon.force_constants.set
              /\ phonon.force_constants.tag = ret.reads[1].file
        /\ (args.fc.set /\ ~FcFromFile) =>
              /\ ret.calls = <<>>
              /\ phonon.force_constants = args.fc
        /\ Called("symmetrize_force_constants") # {} =>
              /\ ret.calls = <<ProduceCall(args.is_compact_fc),
                               SymmetrizeCall(args.log_level)>>
              /\ env.engine = "ok"
              /\ args.symmetrize_fc

\* force constants come from a file while production and symmetrization are
\* asked for: the file's tensor is installed and the engine is not called
C9_Witness ==
    /\ op = "set_dataset_and_force_constants"
    /\ args.produce_fc
    /\ args.symmetrize_fc
    /\ args.fc.set
    /\ FcFromFile
    /\ ret.calls = <<>>
    /\ phonon.force_constants.tag = args.force_constants_filename

\* C10 as stated: with force constants already on the object (from before
\* the call or from the session fc), an in-memory dataset, no explicit file
\* name and FORCE_SETS the conventional file found, phonon.dataset ends up
\* replaced by the dataset of FORCE_SETS.
C10_AsStated ==
    (op = "set_dataset_and_force_constants"
        /\ FcAfterSession.set
        /\ DatasetAfterSession.set
        /\ NoExplicitFile
        /\ cwd = {FORCE_SETS}) =>
        phonon.dataset.tag = FORCE_SETS

\* C10, amended: when the object has force constants (from before the call
\* or from the session fc), phonon.dataset is never replaced by a dataset
\* read from a file: it stays the in-memory dataset, and with no explicit
\* file name no conventional file is read at all.
C10_DatasetKeptWhenForceConstantsSet ==
    (op = "set_dataset_and_force_constants" /\ FcAfterSession.set) =>
        /\ phonon.dataset = DatasetAfterSession
        /\ NoExplicitFile => ret.reads = <<>>

C10_Witness ==
    /\ op = "set_dataset_and_force_constants"
    /\ args.fc.set
    /\ pre.dataset.set
    /\ ~args.dataset.set
    /\ NoExplicitFile
    /\ cwd = {FORCE_SETS}
    /\ ret.reads = <<>>
    /\ phonon.dataset = pre.dataset

====
